---- MODULE Spec2Model ----
(***************************************************************************)
(* Model of the Slack MCP servers of this repository:                      *)
(*   - src/server.js            WebSocket variant            ("ws")        *)
(*   - src/server-http.js:1     plain HTTP variant           ("http")      *)
(*   - src/server-http.js:172   HTTP variant with Duo gate   ("httpduo")   *)
(*   - src/unnamed/part_002     SSE variant with Duo + OAuth ("sseduo")    *)
(*   - src/unnamed/part_001     SDK SSE variant              ("sdksse")    *)
(* A handler is atomic between two awaits (single-threaded event loop);    *)
(* every await of an external collaborator (token introspection, token     *)
(* exchange, Slack) is a suspension point with its own reply action.       *)
(***************************************************************************)
EXTENDS Integers, Sequences, FiniteSets, TLC

VARIABLES
    variant,              \* which entry point this process runs
    DUO_ENABLED,          \* src/server-http.js:178
    SLACK_BOT_TOKEN,      \* whether process.env.SLACK_BOT_TOKEN is set
    duoOAuthConfigured,   \* DUO_API_HOSTNAME && DUO_CLIENT_ID, src/unnamed/part_002:142
    handlers,             \* the activations of the /mcp (or WebSocket message) handler
    sseConnections,       \* src/unnamed/part_002:15, connectionId -> connection
    connectionIdCounter,  \* src/unnamed/part_002:16
    authSessions,         \* src/unnamed/part_002:19, state -> session
    now,                  \* Date.now(), in milliseconds
    stateCounter,         \* number of state values drawn by crypto.randomBytes
    callbacks,            \* /auth/callback handlers awaiting the token endpoint
    lastAuth              \* observation of the most recently completed /auth/* request

vars == <<variant, DUO_ENABLED, SLACK_BOT_TOKEN, duoOAuthConfigured, handlers, sseConnections,
          connectionIdCounter, authSessions, now, stateCounter, callbacks,
          lastAuth>>

\* the environment the process was started with
envVars == <<variant, DUO_ENABLED, SLACK_BOT_TOKEN, duoOAuthConfigured>>

mcpVars == <<handlers, sseConnections, connectionIdCounter>>

flowVars == <<authSessions, now, stateCounter, callbacks, lastAuth>>

----------------------------------------------------------------------------
(* Bounds of the model *)

\* request ids range over 1..MaxId
MaxId == 2
\* number of SSE streams ever opened
MaxConn == 2

----------------------------------------------------------------------------
(* JSON values *)

\* a field that is absent from a JSON object (JavaScript undefined)
Undefined == "undefined"
\* JSON null as an id
NullId == 0

Ids == 1..MaxId

Variants == {"ws", "http", "httpduo", "sseduo", "sdksse"}

Methods == {"initialize", "tools/list", "tools/call",
            "notifications/initialized", "notifications/cancelled",
            "ping", Undefined}

\* method.startsWith('notifications/')
StartsWithNotifications(method) ==
    method \in {"notifications/initialized", "notifications/cancelled"}

ToolNames == {"slack_post_message", "postMessage", "other_tool", Undefined}

\* the shapes of params.arguments: absent, or an object with these fields
ArgShapes ==
    { [hasArgs |-> FALSE, channel_id |-> Undefined, channel |-> Undefined, text |-> Undefined],
      [hasArgs |-> TRUE,  channel_id |-> Undefined, channel |-> Undefined, text |-> Undefined],
      [hasArgs |-> TRUE,  channel_id |-> "C123",    channel |-> Undefined, text |-> "hi"],
      [hasArgs |-> TRUE,  channel_id |-> Undefined, channel |-> "C123",    text |-> "hi"] }

NoArgs == [hasArgs |-> FALSE, channel_id |-> Undefined, channel |-> Undefined, text |-> Undefined]

MkRequest(dec, id, method, hasParams, name, a) ==
    [decodable |-> dec, id |-> id, method |-> method, hasParams |-> hasParams,
     name |-> name, hasArgs |-> a.hasArgs, channel_id |-> a.channel_id,
     channel |-> a.channel, text |-> a.text]

\* a body that JSON.parse / express.json() rejects
Malformed == MkRequest(FALSE, NullId, Undefined, FALSE, Undefined, NoArgs)

\* the names some variant registers as its tool
KnownTools == {"slack_post_message", "postMessage"}

\* the decoded request objects {jsonrpc, id, method, params?}; no handler
\* reads the arguments of a tools/call whose name no variant knows, so
\* these come without arguments
Requests ==
    {Malformed}
    \cup { MkRequest(TRUE, id, m, FALSE, Undefined, NoArgs) : id \in Ids, m \in Methods }
    \cup { MkRequest(TRUE, id, "tools/call", TRUE, n, a) :
             id \in Ids, n \in KnownTools, a \in ArgShapes }
    \cup { MkRequest(TRUE, id, "tools/call", TRUE, n, NoArgs) :
             id \in Ids, n \in ToolNames \ KnownTools }

\* the Authorization header after split(' '); <<>> is an absent header
Headers == { <<>>, <<"Basic", "tok">>, <<"Bearer", "tok">>, <<"Bearer", "">>,
             <<"Bearer", "tok", "extra">> }

\* what the introspection endpoint may answer: fetch rejecting ("throw"), a
\* non-2xx status, a 2xx whose body response.json() cannot parse ("parse"),
\* or a 2xx with a JSON body; the body of an active token carries username
\* and may or may not carry display_name and email
IntrospectReplies ==
    { [kind |-> "throw",  ok |-> FALSE, active |-> FALSE,
       username |-> Undefined, display_name |-> Undefined, email |-> Undefined],
      [kind |-> "status", ok |-> FALSE, active |-> FALSE,
       username |-> Undefined, display_name |-> Undefined, email |-> Undefined],
      [kind |-> "parse",  ok |-> TRUE,  active |-> FALSE,
       username |-> Undefined, display_name |-> Undefined, email |-> Undefined],
      [kind |-> "body",   ok |-> TRUE,  active |-> FALSE,
       username |-> Undefined, display_name |-> Undefined, email |-> Undefined],
      [kind |-> "body",   ok |-> TRUE,  active |-> TRUE,
       username |-> "alice", display_name |-> "Alice A", email |-> "alice@example.com"],
      [kind |-> "body",   ok |-> TRUE,  active |-> TRUE,
       username |-> "carol", display_name |-> "Carol C", email |-> Undefined],
      [kind |-> "body",   ok |-> TRUE,  active |-> TRUE,
       username |-> "dave", display_name |-> Undefined, email |-> Undefined] }

\* what https://slack.com/api/chat.postMessage may answer
SlackReplies ==
    { [kind |-> "ok",    ts |-> "123.456",  error |-> Undefined],
      [kind |-> "notok", ts |-> Undefined,  error |-> "channel_not_found"],
      [kind |-> "throw", ts |-> Undefined,  error |-> "fetch failed"] }

----------------------------------------------------------------------------
(* JSON-RPC envelopes *)

RpcResult(id, message, detail, isError) ==
    [id |-> id, kind |-> "result", code |-> 0, message |-> message,
     detail |-> detail, isError |-> isError]

RpcError(id, code, message, detail) ==
    [id |-> id, kind |-> "error", code |-> code, message |-> message,
     detail |-> detail, isError |-> FALSE]

\* an entry of the tools array of a tools/list result: the tool's name and,
\* of its inputSchema, the names of the properties and the required ones
Tool(name, channelField) ==
    [name |-> name, properties |-> {channelField, "text"},
     required |-> {channelField, "text"}]

\* one catalog shared by all entry points: the one of src/server.js
ToolsList_SameEverywhere(v) == << Tool("slack_post_message", "channel_id") >>

\* result.tools of the tools/list answer of variant v
ToolsList(v) ==
    IF v = "sseduo" THEN << Tool("postMessage", "channel") >>
    ELSE << Tool("slack_post_message", "channel_id") >>

\* the tools/list result envelope
RpcToolsList(id, tools) ==
    [id |-> id, kind |-> "result", code |-> 0, message |-> "tools/list",
     detail |-> tools[1].name, isError |-> FALSE, tools |-> tools]

----------------------------------------------------------------------------
(* Outcome of the synchronous part of a handler: either the handler finished *)
(* (rpc = the JSON-RPC envelopes it emitted, http = the HTTP status, body =  *)
(* the kind of HTTP body) or it is suspended in the Slack call (posts).      *)

Finish(rpc, http, body) ==
    [suspend |-> FALSE, rpc |-> rpc, http |-> http, body |-> body, posts |-> <<>>]

Await(channel, prefix, text) ==
    [suspend |-> TRUE, rpc |-> <<>>, http |-> 0, body |-> "none",
     posts |-> << [channel |-> channel, prefix |-> prefix, text |-> text] >>]

\* express.json() / bodyParser.json() calls next(err) on a body it cannot
\* parse; no error middleware is registered, so Express' default error
\* handler answers 400 with an HTML page and the route handler never runs
ExpressJsonError == Finish(<<>>, 400, "html")

\* ws.send(JSON.stringify(response)) or res.status(status).json(response)
Send(v, status, env) ==
    IF v = "ws" THEN Finish(<<env>>, 0, "none") ELSE Finish(<<env>>, status, "jsonrpc")

\* the outer catch of the ws / http handlers
OuterCatch(v) == Send(v, 500, RpcError(NullId, -32700, "Parse error", Undefined))

\* `if (response) ... else ...` with response === null
NullResponse(v, req) ==
    IF v = "ws" THEN Finish(<<>>, 0, "none")
    ELSE Send(v, 400, RpcError(req.id, -32601, "Method not found", Undefined))

\* the tools/call branch up to the await of fetch
ToolsCall(v, duo, userName, req) ==
    IF ~req.hasParams
    THEN OuterCatch(v)      \* destructuring undefined throws a TypeError
    ELSE IF req.name = "slack_post_message"
    THEN IF ~req.hasArgs
         THEN Send(v, 200, RpcError(req.id, -32000, "TypeError", Undefined))
         ELSE Await(req.channel_id, IF duo THEN userName ELSE Undefined, req.text)
    ELSE NullResponse(v, req)

\* the body of ws.on('message') / app.post('/mcp') of the ws, http and
\* httpduo variants for a decoded request, up to the first await
JsonRpcDispatch(v, duo, userName, req) ==
    CASE req.method = "initialize" ->
           Send(v, 200, RpcResult(req.id, "initialize", "2024-11-05", FALSE))
      [] req.method = "tools/list" ->
           Send(v, 200, RpcToolsList(req.id, ToolsList(v)))
      [] req.method = "tools/call" -> ToolsCall(v, duo, userName, req)
      [] req.method = "notifications/initialized" ->
           IF v = "ws" THEN Finish(<<>>, 0, "none") ELSE Finish(<<>>, 200, "none")
      [] OTHER -> NullResponse(v, req)

\* a tools/call branch that does not look at slackData.ok
SlackDone_IgnoresOk(v, duo, req, reply) ==
    IF reply.kind = "throw"
    THEN Send(v, 200, RpcError(req.id, -32000, "exception", reply.error))
    ELSE Send(v, 200, RpcResult(req.id, "sent",
                                IF duo THEN req.channel_id ELSE req.text, FALSE))

\* the rest of the tools/call branch once fetch has settled
SlackDone(v, duo, req, reply) ==
    CASE reply.kind = "ok" ->
           Send(v, 200, RpcResult(req.id, "sent",
                                  IF duo THEN req.channel_id ELSE req.text, FALSE))
      [] reply.kind = "notok" ->
           Send(v, 200, RpcResult(req.id, "Error", reply.error, TRUE))
      [] OTHER ->
           Send(v, 200, RpcError(req.id, -32000, "exception", reply.error))

\* ws.on('message'): JSON.parse is inside the handler's try
WsOnMessage(req) ==
    IF ~req.decodable THEN OuterCatch("ws")
    ELSE JsonRpcDispatch("ws", FALSE, Undefined, req)

----------------------------------------------------------------------------
(* SSE + Duo variant, src/unnamed/part_002 *)

\* sendJSONRPCResponse / sendJSONRPCError on the target stream, then the
\* HTTP answer of the POST
SseSend(env, status, body) == Finish(<<env>>, status, body)

\* the catch of app.post('/mcp')
SseCatch(req, message) ==
    SseSend(RpcError(req.id, -32603, "exception", message), 500, "error_json")

\* app.post('/mcp') from the try on, up to the await of fetch in postToSlack;
\* slackToken is whether process.env.SLACK_BOT_TOKEN is set
SseDispatch(req, userName, slackToken) ==
    CASE req.method = "initialize" ->
           SseSend(RpcResult(req.id, "initialize", "2024-11-05", FALSE), 200, "status_ok")
      [] req.method = "tools/list" ->
           SseSend(RpcToolsList(req.id, ToolsList("sseduo")), 200, "status_ok")
      [] req.method = "tools/call" ->
           IF req.name = "postMessage"
           THEN IF ~req.hasArgs \/ req.text = Undefined
                THEN SseCatch(req, "TypeError")
                ELSE IF ~slackToken
                THEN SseCatch(req, "SLACK_BOT_TOKEN is not set")
                ELSE Await(req.channel, userName, req.text)
           ELSE SseSend(RpcError(req.id, -32601, "Unknown tool", req.name),
                        400, "error_json")
      [] StartsWithNotifications(req.method) -> Finish(<<>>, 200, "status_ok")
      [] OTHER ->
           SseSend(RpcError(req.id, -32601, "Method not found", Undefined),
                   400, "error_json")

\* the rest of postToSlack and of the tools/call branch once fetch has settled
SseSlackDone(req, reply) ==
    IF reply.kind = "ok"
    THEN SseSend(RpcResult(req.id, "sent", req.channel, FALSE), 200, "status_ok")
    ELSE SseCatch(req, reply.error)

----------------------------------------------------------------------------
(* SDK SSE variant, src/unnamed/part_001 *)

\* app.post('/message') answers 202 and hands the body to nobody
SdkMessagePost(req) == Finish(<<>>, 202, "none")

----------------------------------------------------------------------------
(* Authentication gate *)

NoToken == "null"

\* extractToken without the test of parts[0]
extractToken_AnyScheme(header) ==
    IF header = <<>> THEN NoToken
    ELSE IF Len(header) /= 2 THEN NoToken
    ELSE header[2]

\* extractToken(req); header is the Authorization header split on ' '
extractToken(header) ==
    IF header = <<>> THEN NoToken
    ELSE IF Len(header) /= 2 \/ header[1] /= "Bearer" THEN NoToken
    ELSE header[2]

\* `!token`
TokenMissing(token) == token = NoToken \/ token = ""

Invalid == [valid |-> FALSE, username |-> Undefined, displayName |-> Undefined,
            email |-> Undefined]

\* the introspection endpoint answered 2xx with a body saying active: true
AnsweredActive(reply) == reply.kind = "body" /\ reply.ok /\ reply.active

\* verifyDuoToken without its try/catch: a failure reaches the caller as the
\* raised error instead of { valid: false }
verifyDuoToken_NoCatch(reply) ==
    IF reply.kind \in {"throw", "parse"} \/ ~reply.ok \/ ~reply.active
    THEN [valid |-> FALSE, username |-> Undefined, displayName |-> Undefined,
          email |-> Undefined, raised |-> TRUE]
    ELSE [valid |-> TRUE, username |-> reply.username,
          displayName |-> IF reply.display_name = Undefined
                          THEN reply.username ELSE reply.display_name,
          email |-> reply.email]

\* verifyDuoToken without the `if (!data.active) throw`
verifyDuoToken_IgnoresActive(reply) ==
    IF reply.kind \in {"throw", "parse"} \/ ~reply.ok THEN Invalid
    ELSE [valid |-> TRUE, username |-> reply.username,
          displayName |-> IF reply.display_name = Undefined
                          THEN reply.username ELSE reply.display_name,
          email |-> reply.email]

\* verifyDuoToken(token), given what the introspection endpoint answered
verifyDuoToken(reply) ==
    IF reply.kind \in {"throw", "parse"} \/ ~reply.ok \/ ~reply.active THEN Invalid
    ELSE [valid |-> TRUE, username |-> reply.username,
          displayName |-> IF reply.display_name = Undefined
                          THEN reply.username ELSE reply.display_name,
          email |-> reply.email]

\* the 401 answers of authenticateRequest (a JSON-RPC envelope with id null)
\* and of the sseduo handlers (a plain {error} object)
Unauthorized(v, message) ==
    IF v = "httpduo"
    THEN Finish(<< RpcError(NullId, -32600, message, Undefined) >>, 401, "jsonrpc")
    ELSE Finish(<<>>, 401, "error_json")

----------------------------------------------------------------------------
(* Handlers of the MCP endpoints *)

\* no answer of chat.postMessage: the handler did not call Slack
NoSlackReply == [kind |-> "none", ts |-> Undefined, error |-> Undefined]

\* the stream of connection c is registered and has not been closed
StreamLive(c) == c \in DOMAIN sseConnections /\ ~sseConnections[c].closed

\* the activations of the message handler that are followed; an activation
\* keeps what it did (pc = "done") until the next request takes its place
Handlers == {1}

Idle == [pc |-> "idle", route |-> "none", req |-> Malformed, header |-> <<>>,
         gate |-> "off", user |-> Invalid, target |-> 0, posts |-> <<>>,
         introspections |-> 0, rpc |-> <<>>, http |-> 0, body |-> "none",
         dispatched |-> FALSE, registered |-> 0, aborted |-> FALSE,
         slack |-> NoSlackReply, live |-> FALSE, order |-> 0, ws |-> 0,
         sentOn |-> 0]

\* req.user of a request that passed authenticateRequest with Duo disabled
Anonymous == [valid |-> FALSE, username |-> Undefined,
              displayName |-> "Anonymous User", email |-> Undefined]

\* the activations that hold a request at the moment
InFlight == { g \in DOMAIN handlers : handlers[g].pc /= "idle" }

\* a new activation; order is its place among the requests in flight when
\* it arrives
Started(route, req, header) ==
    [Idle EXCEPT !.pc = "run", !.route = route, !.req = req, !.header = header,
                 !.order = 1 + Cardinality(InFlight)]

\* what a finished handler did: the envelopes it emitted, the HTTP answer,
\* whether the dispatcher ran, the connection it registered, whether the
\* stream the envelopes were written to (sendSSE on the target's res) was
\* registered and open at that moment, and the WebSocket they were sent on
\* (ws.send, with the ws of the enclosing wss.on('connection') callback)
Done(hrec, out, dispatched, registered) ==
    [hrec EXCEPT !.pc = "done", !.rpc = out.rpc, !.http = out.http,
                 !.body = out.body, !.dispatched = dispatched,
                 !.registered = registered,
                 !.live = out.rpc /= <<>> /\ StreamLive(hrec.target),
                 !.sentOn = IF out.rpc /= <<>> THEN hrec.ws ELSE 0]

\* handler h, in state hrec, ran its dispatcher with outcome out
Dispatched(h, hrec, out) ==
    handlers' = [handlers EXCEPT ![h] =
                   IF out.suspend
                   THEN [hrec EXCEPT !.pc = "slack", !.posts = out.posts,
                                     !.dispatched = TRUE]
                   ELSE Done(hrec, out, TRUE, 0)]

\* handler h, in state hrec, answered without running the dispatcher
Rejected(h, hrec, out) ==
    handlers' = [handlers EXCEPT ![h] = Done(hrec, out, FALSE, 0)]

\* a gate that validates the token once in a middleware and once more in
\* the handler
AwaitIntrospection_Twice(h, hrec) ==
    handlers' = [handlers EXCEPT ![h] = [hrec EXCEPT !.pc = "introspect",
                                                     !.introspections = 2]]

\* handler h awaits verifyDuoToken
AwaitIntrospection(h, hrec) ==
    handlers' = [handlers EXCEPT ![h] = [hrec EXCEPT !.pc = "introspect",
                                                     !.introspections = 1]]

Free(h) == handlers[h].pc = "idle"

\* the transport has delivered the answer: the activation is over
Return(h) ==
    /\ handlers[h].pc = "done"
    /\ handlers' = [handlers EXCEPT ![h] = Idle]
    /\ UNCHANGED <<sseConnections, connectionIdCounter, envVars, flowVars>>

\* the WebSocket connections that are open
Sockets == {1, 2}

\* src/server.js: ws.on('message') of the connection ws
WsMessage(h) ==
    /\ variant = "ws"
    /\ Free(h)
    /\ \E req \in Requests, ws \in Sockets :
         Dispatched(h, [Started("message", req, <<>>) EXCEPT !.ws = ws],
                    WsOnMessage(req))
    /\ UNCHANGED <<sseConnections, connectionIdCounter, envVars, flowVars>>

\* src/server-http.js:33: express.json(), then app.post('/mcp')
HttpPost(h) ==
    /\ variant = "http"
    /\ Free(h)
    /\ \E req \in Requests :
         LET hrec == Started("post", req, <<>>) IN
         IF ~req.decodable THEN Rejected(h, hrec, ExpressJsonError)
         ELSE Dispatched(h, hrec, JsonRpcDispatch("http", FALSE, Undefined, req))
    /\ UNCHANGED <<sseConnections, connectionIdCounter, envVars, flowVars>>

\* src/server-http.js:322: express.json(), authenticateRequest up to the
\* await of verifyDuoToken, and app.post('/mcp') when Duo is disabled
HttpDuoPost(h) ==
    /\ variant = "httpduo"
    /\ Free(h)
    /\ \E req \in Requests, header \in (IF DUO_ENABLED THEN Headers ELSE {<<>>}) :
         LET hrec == Started("post", req, header) IN
         IF ~req.decodable THEN Rejected(h, hrec, ExpressJsonError)
         ELSE IF ~DUO_ENABLED
         THEN Dispatched(h, [hrec EXCEPT !.user = Anonymous],
                         JsonRpcDispatch("httpduo", FALSE, Anonymous.displayName, req))
         ELSE IF TokenMissing(extractToken(header))
         THEN Rejected(h, [hrec EXCEPT !.gate = "no_token"],
                       Unauthorized("httpduo", "Authorization token required"))
         ELSE AwaitIntrospection(h, hrec)
    /\ UNCHANGED <<sseConnections, connectionIdCounter, envVars, flowVars>>

\* src/unnamed/part_002:376: bodyParser.json(), then app.post('/mcp') up to
\* the await of verifyDuoToken
SsePost(h) ==
    /\ variant = "sseduo"
    /\ Free(h)
    /\ \E req \in Requests, header \in Headers :
         LET hrec == Started("post", req, header) IN
         IF ~req.decodable THEN Rejected(h, hrec, ExpressJsonError)
         ELSE IF TokenMissing(extractToken(header))
         THEN Rejected(h, [hrec EXCEPT !.gate = "no_token"],
                       Unauthorized("sseduo", "Authorization token required"))
         ELSE AwaitIntrospection(h, hrec)
    /\ UNCHANGED <<sseConnections, connectionIdCounter, envVars, flowVars>>

\* the GET /mcp handlers that may still register a connection
OpeningStreams == { h \in Handlers : handlers[h].route = "get" /\ ~Free(h) }

\* src/unnamed/part_002:317: app.get('/mcp') up to the await of verifyDuoToken
SseGet(h) ==
    /\ variant = "sseduo"
    /\ Free(h)
    /\ connectionIdCounter + Cardinality(OpeningStreams) < MaxConn
    /\ \E header \in Headers :
         LET hrec == Started("get", Malformed, header) IN
         IF TokenMissing(extractToken(header))
         THEN Rejected(h, [hrec EXCEPT !.gate = "no_token"],
                       Unauthorized("sseduo", "Authorization token required"))
         ELSE AwaitIntrospection(h, hrec)
    /\ UNCHANGED <<sseConnections, connectionIdCounter, envVars, flowVars>>

\* src/unnamed/part_001:152: express.json(), then app.post('/message')
SdkPost(h) ==
    /\ variant = "sdksse"
    /\ Free(h)
    /\ \E req \in Requests :
         LET hrec == Started("post", req, <<>>) IN
         IF ~req.decodable THEN Rejected(h, hrec, ExpressJsonError)
         ELSE Rejected(h, hrec, SdkMessagePost(req))
    /\ UNCHANGED <<sseConnections, connectionIdCounter, envVars, flowVars>>

\* the first connection, in insertion order, whose user has this email
\* (src/unnamed/part_002:397-403); 0 when there is none
FindConnection(email) ==
    LET same == { c \in DOMAIN sseConnections : sseConnections[c].user.email = email }
    IN IF same = {} THEN 0
       ELSE CHOOSE c \in same : \A d \in same : c <= d

\* verifyDuoToken settles: the rest of authenticateRequest + app.post('/mcp')
\* (httpduo), of app.post('/mcp') (sseduo) or of app.get('/mcp') (sseduo)
IntrospectReply(h) ==
    /\ handlers[h].pc = "introspect"
    /\ \E reply \in IntrospectReplies :
         LET verification == verifyDuoToken(reply)
             hrec == [handlers[h] EXCEPT !.user = verification,
                        !.gate = IF AnsweredActive(reply) THEN "active" ELSE "invalid"]
         IN
         /\ UNCHANGED <<envVars, flowVars>>
         /\ IF ~verification.valid
            THEN /\ Rejected(h, hrec, Unauthorized(variant, "Invalid or expired token"))
                 /\ UNCHANGED <<sseConnections, connectionIdCounter>>
            ELSE IF hrec.route = "get"
            THEN LET connectionId == connectionIdCounter + 1 IN
                 /\ connectionIdCounter' = connectionId
                 /\ sseConnections' =
                      [c \in DOMAIN sseConnections \cup {connectionId} |->
                         IF c = connectionId
                         THEN [user |-> verification, connectedAt |-> now,
                               closed |-> hrec.aborted]
                         ELSE sseConnections[c]]
                 /\ handlers' = [handlers EXCEPT ![h] =
                                   Done([hrec EXCEPT !.target = connectionId],
                                        Finish(<<>>, 200, "event-stream"),
                                        FALSE, connectionId)]
            ELSE IF variant = "httpduo"
            THEN /\ Dispatched(h, hrec,
                       JsonRpcDispatch("httpduo", TRUE, verification.displayName, hrec.req))
                 /\ UNCHANGED <<sseConnections, connectionIdCounter>>
            ELSE LET target == FindConnection(verification.email) IN
                 /\ IF target = 0
                    THEN Rejected(h, hrec, Finish(<<>>, 404, "error_json"))
                    ELSE Dispatched(h, [hrec EXCEPT !.target = target],
                           SseDispatch(hrec.req, sseConnections[target].user.displayName,
                                       SLACK_BOT_TOKEN))
                 /\ UNCHANGED <<sseConnections, connectionIdCounter>>

\* a `request` kept in one variable outside the handler: every arrival
\* overwrites it, so a resumed activation sees the request that came last
RequestOf_Shared(h) ==
    LET last == CHOOSE g \in InFlight :
                  \A f \in InFlight : handlers[f].order <= handlers[g].order
    IN handlers[last].req

\* the `request` (`message`) constant of activation h: it is declared inside
\* the handler, so every activation has its own
RequestOf(h) == handlers[h].req

\* the fetch of chat.postMessage settles: the rest of the tools/call branch
SlackReply(h) ==
    /\ handlers[h].pc = "slack"
    /\ \E reply \in SlackReplies :
         LET hrec == handlers[h]
             out == IF variant = "sseduo" THEN SseSlackDone(RequestOf(h), reply)
                    ELSE SlackDone(variant, variant = "httpduo" /\ DUO_ENABLED,
                                   RequestOf(h), reply)
         IN handlers' = [handlers EXCEPT ![h] =
                           Done([hrec EXCEPT !.slack = reply], out, TRUE, 0)]
    /\ UNCHANGED <<sseConnections, connectionIdCounter, envVars, flowVars>>

\* the client of a GET /mcp goes away while verifyDuoToken is awaited: req
\* emits 'close' before the handler has attached its listener
\* (src/unnamed/part_002:369), so the listener never runs for this stream
ClientAbort(h) ==
    /\ variant = "sseduo"
    /\ handlers[h].pc = "introspect"
    /\ handlers[h].route = "get"
    /\ ~handlers[h].aborted
    /\ handlers' = [handlers EXCEPT ![h].aborted = TRUE]
    /\ UNCHANGED <<sseConnections, connectionIdCounter, envVars, flowVars>>

\* src/unnamed/part_002:369: the client of an open stream goes away and the
\* listener of req's 'close' event runs
SseClose(c) ==
    /\ c \in DOMAIN sseConnections
    /\ ~sseConnections[c].closed
    /\ sseConnections' = [d \in DOMAIN sseConnections \ {c} |-> sseConnections[d]]
    /\ UNCHANGED <<handlers, connectionIdCounter, envVars, flowVars>>

----------------------------------------------------------------------------
(* OAuth authorization-code flow, src/unnamed/part_002:138-305 *)

\* number of /auth/duo-initiate requests served
MaxSessions == 2
\* number of /auth/callback requests that may await the token endpoint at once
MaxCallbacks == 1
\* the clock advances in steps of TickMs, MaxTicks times
MaxTicks == 3

\* 10 * 60 * 1000, src/unnamed/part_002:162
SessionTTL == 600000
TickMs == SessionTTL \div 2

\* a query parameter that is absent from the URL
NoParam == -1
NoExpiry == -1

\* the state values a caller may present: none, a forged one (0), or any
\* value crypto.randomBytes has drawn or will draw
QueryStates == {NoParam} \cup 0..MaxSessions
\* the code is opaque to the handler: it is only passed on to the token
\* endpoint, whose answer is drawn from TokenReplies
QueryCodes == {Undefined, "code1"}

\* what the token endpoint may answer (fetch rejecting included)
TokenReplies ==
    { [kind |-> "throw",  ok |-> FALSE, status |-> 0, text |-> "fetch failed",
       access_token |-> Undefined, refresh_token |-> Undefined, expires_in |-> 0],
      [kind |-> "status", ok |-> FALSE, status |-> 400, text |-> "invalid_grant",
       access_token |-> Undefined, refresh_token |-> Undefined, expires_in |-> 0],
      [kind |-> "body",   ok |-> TRUE,  status |-> 200, text |-> "json",
       access_token |-> "access1", refresh_token |-> "refresh1", expires_in |-> 3600],
      [kind |-> "body",   ok |-> TRUE,  status |-> 200, text |-> "json",
       access_token |-> "access2", refresh_token |-> "refresh2", expires_in |-> 3600] }

\* error.message of the catch of /auth/callback: the Error thrown on a
\* non-2xx answer carries the upstream status and body, the one fetch throws
\* carries neither
ExchangeError(reply) ==
    IF reply.kind = "throw" THEN [message |-> reply.text, status |-> 0, text |-> Undefined]
    ELSE [message |-> "Token exchange failed", status |-> reply.status, text |-> reply.text]

NoExchangeError == [message |-> Undefined, status |-> 0, text |-> Undefined]

\* base64url(SHA-256(x)): verifiers are numbered from 1, and the digest of
\* verifier x is a number no verifier has; equal digests come from equal
\* inputs (SHA-256 is taken to be collision-free)
S256(x) == 0 - x

\* a challenge sent with the `plain` method: the verifier itself
codeChallenge_Plain(codeVerifier) == codeVerifier

\* crypto.createHash('sha256').update(codeVerifier).digest('base64url')
codeChallenge(codeVerifier) == S256(codeVerifier)

NoAuthObservation ==
    [op |-> "none", state |-> NoParam, code |-> Undefined, issued |-> FALSE,
     status |-> 0, body |-> "none", exchanged |-> FALSE, codeVerifier |-> 0,
     authenticated |-> FALSE, token |-> Undefined, expiresAt |-> NoExpiry,
     codeChallenge |-> Undefined, error |-> NoExchangeError]

\* the session stored by /auth/duo-initiate
NewSession(codeVerifier, timestamp) ==
    [codeVerifier |-> codeVerifier, timestamp |-> timestamp,
     authenticated |-> FALSE, accessToken |-> Undefined,
     refreshToken |-> Undefined, expiresAt |-> NoExpiry]

\* Date.now() - value.timestamp > 10 * 60 * 1000
Expired(session, t) == t - session.timestamp > SessionTTL

\* a cleanup loop that deletes every session older than the one just stored
Sweep_AllOlder(m, t) ==
    [k \in { j \in DOMAIN m : t - m[j].timestamp <= 0 } |-> m[k]]

\* a cleanup loop that spares the sessions that completed the exchange
Sweep_UnauthenticatedOnly(m, t) ==
    [k \in { j \in DOMAIN m : ~Expired(m[j], t) \/ m[j].authenticated } |-> m[k]]

\* the cleanup loop of /auth/duo-initiate over the map m at time t
Sweep(m, t) ==
    [k \in { j \in DOMAIN m : ~Expired(m[j], t) } |-> m[k]]

\* authSessions.set(state, session)
MapSet(m, k, v) == [j \in DOMAIN m \cup {k} |-> IF j = k THEN v ELSE m[j]]

NoSession ==
    [codeVerifier |-> 0, timestamp |-> -1, authenticated |-> FALSE,
     accessToken |-> Undefined, refreshToken |-> Undefined, expiresAt |-> NoExpiry]

\* authSessions.get(state) || {}: a lookup that never comes back empty
GetSession_Default(m, state) ==
    IF state \in DOMAIN m THEN m[state] ELSE [NoSession EXCEPT !.timestamp = 0]

\* authSessions.get(state): NoSession stands for undefined
GetSession(m, state) == IF state \in DOMAIN m THEN m[state] ELSE NoSession

\* an update that sets the flag and the expiry but not the access token
Authenticate_DropsToken(session, tokenData, t) ==
    [session EXCEPT !.authenticated = TRUE,
                    !.refreshToken = tokenData.refresh_token,
                    !.expiresAt = t + tokenData.expires_in * 1000]

\* the update of the session by /auth/callback after a 2xx token answer
Authenticate(session, tokenData, t) ==
    [session EXCEPT !.authenticated = TRUE,
                    !.accessToken = tokenData.access_token,
                    !.refreshToken = tokenData.refresh_token,
                    !.expiresAt = t + tokenData.expires_in * 1000]

\* a callback that stores the session under its key again after the exchange
Mutate_Reinsert(m, cb, tokenData, t) ==
    IF tokenData.kind = "throw" \/ ~tokenData.ok THEN m
    ELSE MapSet(m, cb.state,
                Authenticate(IF cb.state \in DOMAIN m THEN m[cb.state]
                             ELSE NewSession(cb.codeVerifier, cb.timestamp),
                             tokenData, t))

\* a callback without the `if (!tokenResponse.ok) throw`
Mutate_IgnoresStatus(m, cb, tokenData, t) ==
    IF tokenData.kind = "throw" THEN m
    ELSE IF cb.state \in DOMAIN m
    THEN [m EXCEPT ![cb.state] = Authenticate(m[cb.state], tokenData, t)]
    ELSE m

\* the session map after the token endpoint has answered the pending
\* callback cb: the handler writes to the session object it looked up, which
\* is the map's entry exactly when the key is still there (a key is never
\* set twice)
Mutate(m, cb, tokenData, t) ==
    IF tokenData.kind = "throw" \/ ~tokenData.ok THEN m
    ELSE IF cb.state \in DOMAIN m
    THEN [m EXCEPT ![cb.state] = Authenticate(m[cb.state], tokenData, t)]
    ELSE m

\* a status that reports every stored session as authenticated
StatusReply_PresentIsAuthenticated(m, state) ==
    IF GetSession(m, state) = NoSession
    THEN [body |-> "Session not found", authenticated |-> FALSE,
          token |-> Undefined, expiresAt |-> NoExpiry]
    ELSE LET session == GetSession(m, state) IN
         [body |-> "session", authenticated |-> TRUE,
          token |-> session.accessToken, expiresAt |-> session.expiresAt]

\* the JSON body of /auth/status for a present state parameter
StatusReply(m, state) ==
    IF GetSession(m, state) = NoSession
    THEN [body |-> "Session not found", authenticated |-> FALSE,
          token |-> Undefined, expiresAt |-> NoExpiry]
    ELSE LET session == GetSession(m, state) IN
         [body |-> "session", authenticated |-> session.authenticated,
          token |-> IF session.authenticated THEN session.accessToken ELSE Undefined,
          expiresAt |-> session.expiresAt]

\* no answer of an /auth/* request is waiting to be read
Quiet == lastAuth.op = "none"

\* the transport has delivered the answer of the last /auth/* request
AuthReturn ==
    /\ ~Quiet
    /\ lastAuth' = NoAuthObservation
    /\ UNCHANGED <<authSessions, now, stateCounter, callbacks, envVars, mcpVars>>

\* app.get('/auth/duo-initiate')
Initiate ==
    /\ variant = "sseduo"
    /\ Quiet
    /\ IF ~duoOAuthConfigured
       THEN /\ lastAuth' = [NoAuthObservation EXCEPT !.op = "initiate", !.status = 500,
                                                     !.body = "Duo OAuth not configured"]
            /\ UNCHANGED <<authSessions, stateCounter>>
       ELSE /\ stateCounter < MaxSessions
            /\ LET state == stateCounter + 1
                   codeVerifier == stateCounter + 1
               IN /\ stateCounter' = state
                  /\ authSessions' =
                       Sweep(MapSet(authSessions, state, NewSession(codeVerifier, now)), now)
                  /\ lastAuth' = [NoAuthObservation EXCEPT
                                    !.op = "initiate", !.state = state, !.issued = TRUE,
                                    !.status = 200, !.body = "authUrl",
                                    !.codeVerifier = codeVerifier,
                                    !.codeChallenge = codeChallenge(codeVerifier)]
    /\ UNCHANGED <<now, callbacks, envVars, mcpVars>>

\* app.get('/auth/callback') up to the await of the token endpoint
Callback ==
    /\ variant = "sseduo"
    /\ Quiet
    /\ \E code \in QueryCodes, state \in QueryStates :
         LET obs == [NoAuthObservation EXCEPT !.op = "callback", !.state = state,
                        !.code = code, !.issued = state \in 1..stateCounter]
         IN
         IF code = Undefined \/ state = NoParam
         THEN /\ lastAuth' = [obs EXCEPT !.status = 400,
                                         !.body = "Missing code or state parameter"]
              /\ UNCHANGED callbacks
         ELSE IF GetSession(authSessions, state) = NoSession
         THEN /\ lastAuth' = [obs EXCEPT !.status = 400,
                                         !.body = "Invalid or expired session"]
              /\ UNCHANGED callbacks
         ELSE /\ Cardinality(callbacks) < MaxCallbacks
              /\ callbacks' = callbacks \cup
                   { [state |-> state, code |-> code, issued |-> obs.issued,
                      codeVerifier |-> GetSession(authSessions, state).codeVerifier,
                      timestamp |-> GetSession(authSessions, state).timestamp] }
              /\ UNCHANGED lastAuth
    /\ UNCHANGED <<authSessions, now, stateCounter, envVars, mcpVars>>

\* the token endpoint settles: the rest of app.get('/auth/callback'). The
\* handler holds a reference to the session object; the object is in the map
\* exactly when its key still is, since a key is never set twice.
TokenReply ==
    /\ Quiet
    /\ \E cb \in callbacks, reply \in TokenReplies :
         LET obs == [NoAuthObservation EXCEPT !.op = "callback", !.state = cb.state,
                        !.code = cb.code, !.issued = cb.issued, !.exchanged = TRUE,
                        !.codeVerifier = cb.codeVerifier]
         IN
         /\ callbacks' = callbacks \ {cb}
         /\ authSessions' = Mutate(authSessions, cb, reply, now)
         /\ lastAuth' =
              IF reply.kind = "throw" \/ ~reply.ok
              THEN [obs EXCEPT !.status = 500, !.body = "Authentication Failed",
                               !.error = ExchangeError(reply)]
              ELSE [obs EXCEPT !.status = 200, !.body = "Authentication Successful",
                               !.token = reply.access_token]
    /\ UNCHANGED <<now, stateCounter, envVars, mcpVars>>

\* app.get('/auth/status')
Status ==
    /\ variant = "sseduo"
    /\ Quiet
    /\ \E state \in QueryStates :
         LET obs == [NoAuthObservation EXCEPT !.op = "status", !.state = state,
                        !.issued = state \in 1..stateCounter]
         IN
         lastAuth' =
           IF state = NoParam
           THEN [obs EXCEPT !.status = 400, !.body = "Missing state parameter"]
           ELSE LET reply == StatusReply(authSessions, state) IN
                [obs EXCEPT !.status = 200, !.body = reply.body,
                            !.authenticated = reply.authenticated,
                            !.token = reply.token,
                            !.expiresAt = reply.expiresAt]
    /\ UNCHANGED <<authSessions, now, stateCounter, callbacks, envVars, mcpVars>>

\* time passes
Tick ==
    /\ Quiet
    /\ now < MaxTicks * TickMs
    /\ now' = now + TickMs
    /\ UNCHANGED <<authSessions, stateCounter, callbacks, lastAuth, envVars, mcpVars>>

\* 3600000, src/unnamed/part_002:517
ConnectionMaxAge == 3600000

\* more than an hour passes at once: the clock goes past the maximum age of
\* every connection registered so far
TickHour ==
    /\ Quiet
    /\ now < MaxTicks * TickMs
    /\ now' = now + ConnectionMaxAge + TickMs
    /\ UNCHANGED <<authSessions, stateCounter, callbacks, lastAuth, envVars, mcpVars>>

\* the loop of the setInterval callback over the registry m at time t
SweepConnections(m, t) ==
    [c \in { d \in DOMAIN m : ~(t - m[d].connectedAt > ConnectionMaxAge) } |-> m[c]]

\* the setInterval callback (every 600000 ms): it goes through sseConnections
\* only, authSessions is not touched
Cleanup ==
    /\ variant = "sseduo"
    /\ sseConnections' = SweepConnections(sseConnections, now)
    /\ UNCHANGED <<handlers, connectionIdCounter, envVars, flowVars>>

----------------------------------------------------------------------------
(* The MCP endpoints of a running process *)

\* the startup checks: src/server.js:8, src/server-http.js:6 and :183,
\* src/unnamed/part_001:12; src/unnamed/part_002 has none, so it runs with
\* SLACK_BOT_TOKEN or DUO_API_HOSTNAME / DUO_CLIENT_ID unset as well (in the
\* other variants the OAuth endpoints do not exist and duoOAuthConfigured
\* is FALSE)
InitMcp ==
    /\ variant \in Variants
    /\ DUO_ENABLED \in BOOLEAN
    /\ DUO_ENABLED => variant \in {"httpduo", "sseduo"}
    /\ variant = "sseduo" => DUO_ENABLED
    /\ SLACK_BOT_TOKEN \in BOOLEAN
    /\ variant /= "sseduo" => SLACK_BOT_TOKEN
    /\ duoOAuthConfigured \in BOOLEAN
    /\ duoOAuthConfigured => variant = "sseduo"
    /\ handlers = [h \in Handlers |-> Idle]
    /\ sseConnections = << >>
    /\ connectionIdCounter = 0

InitFlowIdle ==
    /\ authSessions = << >>
    /\ now = 0
    /\ stateCounter = 0
    /\ callbacks = {}
    /\ lastAuth = NoAuthObservation

Init == InitMcp /\ InitFlowIdle

\* the requests, the answers of the awaited collaborators, the clients going
\* away, the clock and the setInterval callback of src/unnamed/part_002:513
NextMcp ==
    \/ \E h \in Handlers : WsMessage(h)
    \/ \E h \in Handlers : HttpPost(h)
    \/ \E h \in Handlers : HttpDuoPost(h)
    \/ \E h \in Handlers : SsePost(h)
    \/ \E h \in Handlers : SseGet(h)
    \/ \E h \in Handlers : SdkPost(h)
    \/ \E h \in Handlers : IntrospectReply(h)
    \/ \E h \in Handlers : SlackReply(h)
    \/ \E h \in Handlers : Return(h)
    \/ \E h \in Handlers : ClientAbort(h)
    \/ \E c \in 1..MaxConn : SseClose(c)
    \/ TickHour
    \/ Cleanup

Next == NextMcp

Spec == Init /\ [][Next]_vars

----------------------------------------------------------------------------
(* Two activations of the message handler at once: a second request arrives *)
(* while the first is suspended in an await                                  *)

Slots == {1, 2}

InitConcurrent ==
    /\ variant \in {"ws", "http", "httpduo"}
    /\ DUO_ENABLED \in BOOLEAN
    /\ DUO_ENABLED => variant = "httpduo"
    /\ SLACK_BOT_TOKEN = TRUE
    /\ duoOAuthConfigured = FALSE
    /\ handlers = [h \in Slots |-> Idle]
    /\ sseConnections = << >>
    /\ connectionIdCounter = 0
    /\ InitFlowIdle

NextConcurrent ==
    \/ \E h \in Slots : WsMessage(h)
    \/ \E h \in Slots : HttpPost(h)
    \/ \E h \in Slots : HttpDuoPost(h)
    \/ \E h \in Slots : IntrospectReply(h)
    \/ \E h \in Slots : SlackReply(h)
    \/ \E h \in Slots : Return(h)

SpecConcurrent == InitConcurrent /\ [][NextConcurrent]_vars

----------------------------------------------------------------------------
(* The OAuth endpoints of a running sseduo process *)

InitFlow ==
    /\ variant = "sseduo"
    /\ DUO_ENABLED = TRUE
    /\ SLACK_BOT_TOKEN = TRUE
    /\ duoOAuthConfigured \in BOOLEAN
    /\ handlers = [h \in Handlers |-> Idle]
    /\ sseConnections = << >>
    /\ connectionIdCounter = 0
    /\ InitFlowIdle

NextFlow ==
    \/ Initiate
    \/ Callback
    \/ TokenReply
    \/ Status
    \/ AuthReturn
    \/ Tick

SpecFlow == InitFlow /\ [][NextFlow]_vars

----------------------------------------------------------------------------
(* The sweeps of a running sseduo process, with what they sweep: the sessions *)
(* /auth/duo-initiate stores and the streams GET /mcp registers. The timer    *)
(* fires, time passes and every awaited answer arrives; no client is obliged  *)
(* to send a request.                                                         *)

NextSweep ==
    \/ Initiate
    \/ AuthReturn
    \/ Tick
    \/ TickHour
    \/ Cleanup
    \/ \E h \in Handlers : SseGet(h)
    \/ \E h \in Handlers : IntrospectReply(h)
    \/ \E h \in Handlers : Return(h)
    \/ \E h \in Handlers : ClientAbort(h)
    \/ \E c \in 1..MaxConn : SseClose(c)

SpecSweep ==
    /\ InitFlow
    /\ [][NextSweep]_vars
    /\ WF_vars(Cleanup)
    /\ WF_vars(Tick)
    /\ WF_vars(AuthReturn)
    /\ \A h \in Handlers : WF_vars(IntrospectReply(h)) /\ WF_vars(Return(h))

----------------------------------------------------------------------------
(* Properties of the MCP endpoints, checked under Spec *)

\* the activations that have answered
Answered == { h \in Handlers : handlers[h].pc = "done" }

\* the activations whose dispatcher ran on a decoded request
Served == { h \in Answered : handlers[h].dispatched /\ handlers[h].req.decodable }

\* the tool name tools/list advertises in this variant
RegisteredTool == IF variant = "sseduo" THEN "postMessage" ELSE "slack_post_message"

\* the deployment requires a bearer token on /mcp
AuthRequired == variant = "sseduo" \/ (variant = "httpduo" /\ DUO_ENABLED)

HasEnvelope(r, kind, code) ==
    \E i \in 1..Len(r.rpc) : r.rpc[i].kind = kind /\ r.rpc[i].code = code

\* C1: every JSON-RPC response the dispatcher emits for a decoded request
\* whose method does not start with 'notifications/' carries the request's id
C1_IdPreserved ==
    \A h \in Served :
      LET r == handlers[h] IN
      ~StartsWithNotifications(r.req.method) =>
        \A i \in 1..Len(r.rpc) : r.rpc[i].id = r.req.id

\* C2 as stated: when authentication is required nothing is dispatched,
\* registered or posted unless the request's own token was introspected as
\* active, and every request whose token is missing, malformed or not active
\* ends in HTTP 401 with nothing dispatched, registered or posted
C2_EveryRejectionIs401 ==
    AuthRequired =>
      \A h \in Handlers :
        LET r == handlers[h] IN
        /\ (r.dispatched \/ r.registered /= 0 \/ r.posts /= <<>>) => r.gate = "active"
        /\ (r.pc = "done" /\ r.gate /= "active") =>
             (r.http = 401 /\ ~r.dispatched /\ r.registered = 0 /\ r.posts = <<>>)

\* C2, amended: as C2, where the 401 is owed to the requests that reach the
\* gate (GET /mcp, and POST /mcp with a body the JSON middleware decoded); a
\* connection is in the registry only with a verified user, and the session
\* map is not touched
C2_GateBeforeDispatch ==
    AuthRequired =>
      /\ \A h \in Handlers :
           LET r == handlers[h] IN
           /\ (r.dispatched \/ r.registered /= 0 \/ r.posts /= <<>>) =>
                (r.gate = "active" /\ r.introspections = 1)
           /\ (r.pc = "done" /\ r.gate /= "active") =>
                (~r.dispatched /\ r.registered = 0 /\ r.posts = <<>> /\ r.rpc \in
                   {<<>>, << RpcError(NullId, -32600, "Authorization token required", Undefined) >>,
                          << RpcError(NullId, -32600, "Invalid or expired token", Undefined) >>})
           /\ (r.pc = "done" /\ r.gate /= "active" /\ (r.route = "get" \/ r.req.decodable)) =>
                r.http = 401
           /\ (r.pc = "done" /\ TokenMissing(extractToken(r.header))
                 /\ (r.route = "get" \/ r.req.decodable)) =>
                (r.gate = "no_token" /\ r.introspections = 0 /\ r.http = 401)
      /\ \A c \in DOMAIN sseConnections : sseConnections[c].user.valid
      /\ authSessions = << >>

\* C2 witness: a POST /mcp whose token the endpoint reported inactive was
\* answered 401 while a stream of a verified user is registered
C2_Witness ==
    /\ variant = "sseduo"
    /\ sseConnections /= << >>
    /\ \E h \in Answered :
         /\ handlers[h].route = "post"
         /\ handlers[h].gate = "invalid"
         /\ handlers[h].introspections = 1
         /\ handlers[h].http = 401

\* C3: a tools/call naming a tool that is not registered yields an error
\* with code -32601 and posts nothing to Slack
C3_UnknownToolIs32601 ==
    \A h \in Served :
      LET r == handlers[h] IN
      (r.req.method = "tools/call" /\ r.req.hasParams /\ r.req.name /= RegisteredTool) =>
        (HasEnvelope(r, "error", -32601) /\ r.posts = <<>>)

\* C4: a request whose method is none of initialize, tools/list, tools/call
\* or notifications/* yields error -32601 'Method not found' with its id
C4_MethodNotFound ==
    \A h \in Served :
      LET r == handlers[h] IN
      r.req.method \in {"ping", Undefined} =>
        r.rpc = << RpcError(r.req.id, -32601, "Method not found", Undefined) >>

\* C5: a request whose method starts with 'notifications/' gets no JSON-RPC
\* response or error envelope, only a 2xx (or nothing on WebSocket)
C5_NotificationsUnanswered ==
    \A h \in Served :
      LET r == handlers[h] IN
      StartsWithNotifications(r.req.method) =>
        (r.rpc = <<>> /\ (r.http = 0 \/ (r.http >= 200 /\ r.http < 300)))

\* C6: a body that is not decodable JSON is answered with the parse-error
\* envelope {jsonrpc: '2.0', id: null, error: {code: -32700}}
C6_ParseErrorEnvelope ==
    \A h \in Answered :
      LET r == handlers[h] IN
      (r.route /= "get" /\ ~r.req.decodable) =>
        /\ Len(r.rpc) = 1
        /\ r.rpc[1].kind = "error"
        /\ r.rpc[1].id = NullId
        /\ r.rpc[1].code = -32700

----------------------------------------------------------------------------
(* Properties of the OAuth flow, checked under SpecFlow *)

\* the /auth/* request answered by this step
AnsweredNow(op) == Quiet /\ lastAuth'.op = op

\* C7: a callback whose state no earlier initiate returned is answered 400,
\* sends no token-exchange request and leaves every session as it was
C7_UnknownStateRejected ==
    [][ (AnsweredNow("callback") /\ ~lastAuth'.issued) =>
          /\ lastAuth'.status = 400
          /\ ~lastAuth'.exchanged
          /\ callbacks' = callbacks
          /\ authSessions' = authSessions ]_vars

\* C7 witness: a callback with a code and a forged state was answered 400
\* while a session of another state is in the map
C7_Witness ==
    /\ lastAuth.op = "callback"
    /\ lastAuth.code /= Undefined
    /\ lastAuth.state = 0
    /\ lastAuth.status = 400
    /\ authSessions /= << >>

\* C8: a callback for a session created more than 10 minutes earlier starts
\* no token exchange, and an expired session is never moved to authenticated
C8_ExpiredSessionRejected ==
    [][ \A s \in DOMAIN authSessions :
          Expired(authSessions[s], now) =>
            /\ ~ \E cb \in callbacks' \ callbacks : cb.state = s
            /\ (s \in DOMAIN authSessions' /\ ~authSessions[s].authenticated) =>
                 ~authSessions'[s].authenticated ]_vars

\* C9 as stated: an authenticated session never leaves that state, not even
\* by the sweep
C9_AuthenticatedIsTerminal ==
    [][ \A s \in DOMAIN authSessions :
          authSessions[s].authenticated =>
            (s \in DOMAIN authSessions' /\ authSessions'[s].authenticated) ]_vars

\* C9, amended: while a session is in the map it only moves from initiated
\* to authenticated; a session leaves the map only when it is older than 10
\* minutes (whatever its state), and only a state drawn by this very step
\* enters the map, so a removed session never reappears
C9_Lifecycle ==
    [][ \A s \in 0..MaxSessions :
          /\ (s \in DOMAIN authSessions /\ s \in DOMAIN authSessions') =>
               /\ authSessions[s].authenticated => authSessions'[s].authenticated
               /\ authSessions'[s].codeVerifier = authSessions[s].codeVerifier
               /\ authSessions'[s].timestamp = authSessions[s].timestamp
          /\ (s \in DOMAIN authSessions /\ s \notin DOMAIN authSessions') =>
               Expired(authSessions[s], now)
          /\ (s \notin DOMAIN authSessions /\ s \in DOMAIN authSessions') =>
               /\ s = stateCounter + 1
               /\ stateCounter' = s
               /\ ~authSessions'[s].authenticated ]_vars

\* C9 witness: the first session was removed by the sweep of the second
\* initiate, and the second session is authenticated
C9_Witness ==
    /\ stateCounter = 2
    /\ DOMAIN authSessions = {2}
    /\ authSessions[2].authenticated

\* C10: once a session is authenticated its accessToken, refreshToken and
\* expiresAt never change again
C10_TokensWrittenOnce ==
    [][ \A s \in DOMAIN authSessions :
          (authSessions[s].authenticated /\ s \in DOMAIN authSessions') =>
            /\ authSessions'[s].accessToken = authSessions[s].accessToken
            /\ authSessions'[s].refreshToken = authSessions[s].refreshToken
            /\ authSessions'[s].expiresAt = authSessions[s].expiresAt ]_vars

\* this step answers a callback whose token exchange the endpoint answered 2xx
ExchangeSucceeded == AnsweredNow("callback") /\ lastAuth'.status = 200

\* C11 as stated: once initiate has returned s and a callback for s has
\* completed with a 2xx token answer, status(s) reports authenticated:true
\* with the access token of that exchange
C11_StatusAfterExchange ==
    [][ (ExchangeSucceeded /\ lastAuth'.issued) =>
          LET reply == StatusReply(authSessions', lastAuth'.state) IN
          reply.authenticated /\ reply.token = lastAuth'.token ]_vars

\* C11, amended: when a callback for s completes with a 2xx token answer and
\* the session of s is still in the map, status(s) reports authenticated:true
\* with the access token of that exchange, and goes on reporting exactly that
\* until a later successful exchange for s replaces the token or a sweep
\* removes the session
C11_StatusWhileStored ==
    [][ /\ (ExchangeSucceeded /\ lastAuth'.state \in DOMAIN authSessions) =>
             /\ lastAuth'.state \in DOMAIN authSessions'
             /\ StatusReply(authSessions', lastAuth'.state) =
                  [body |-> "session", authenticated |-> TRUE,
                   token |-> lastAuth'.token, expiresAt |-> now + 3600 * 1000]
        /\ \A s \in DOMAIN authSessions \cap DOMAIN authSessions' :
             StatusReply(authSessions, s).authenticated =>
               \/ StatusReply(authSessions', s) = StatusReply(authSessions, s)
               \/ ExchangeSucceeded /\ lastAuth'.state = s
        /\ (AnsweredNow("status") /\ lastAuth'.state \in DOMAIN authSessions
              /\ authSessions[lastAuth'.state].authenticated) =>
             /\ lastAuth'.authenticated
             /\ lastAuth'.token = authSessions[lastAuth'.state].accessToken
             /\ lastAuth'.token /= Undefined ]_vars

\* C11 witness: status answered authenticated:true with the token of the
\* second exchange
C11_Witness ==
    /\ lastAuth.op = "status"
    /\ lastAuth.authenticated
    /\ lastAuth.token = "access2"
    /\ lastAuth.state \in DOMAIN authSessions

\* C12: a callback whose session was swept while its token exchange was
\* pending still answers 'Authentication Successful', the map holds no entry
\* for its state afterwards and status(state) reports authenticated:false
C12_SweptWhilePending ==
    [][ (ExchangeSucceeded /\ lastAuth'.issued
           /\ lastAuth'.state \notin DOMAIN authSessions) =>
          /\ lastAuth'.body = "Authentication Successful"
          /\ lastAuth'.state \notin DOMAIN authSessions'
          /\ authSessions' = authSessions
          /\ StatusReply(authSessions', lastAuth'.state) =
               [body |-> "Session not found", authenticated |-> FALSE,
                token |-> Undefined, expiresAt |-> NoExpiry] ]_vars

\* C12 witness: the interleaving is reachable: a callback for state 1 was
\* answered as successful although the sweep of the second initiate had
\* removed session 1 while the exchange was pending
C12_Witness ==
    /\ lastAuth.op = "callback"
    /\ lastAuth.status = 200
    /\ lastAuth.state = 1
    /\ lastAuth.exchanged
    /\ stateCounter = 2
    /\ 1 \notin DOMAIN authSessions

\* C13: when the token endpoint answers non-2xx the callback fails with an
\* error carrying the upstream status and body and the session map is left
\* as it was: an unauthenticated session stays unauthenticated without tokens
C13_ExchangeFailureKeepsSession ==
    [][ (AnsweredNow("callback") /\ lastAuth'.exchanged
           /\ lastAuth'.error.message = "Token exchange failed") =>
          /\ lastAuth'.status = 500
          /\ lastAuth'.error.status = 400
          /\ lastAuth'.error.text = "invalid_grant"
          /\ lastAuth'.token = Undefined
          /\ authSessions' = authSessions
          /\ \A s \in DOMAIN authSessions :
               ~authSessions[s].authenticated =>
                 StatusReply(authSessions', s) =
                   [body |-> "session", authenticated |-> FALSE,
                    token |-> Undefined, expiresAt |-> NoExpiry] ]_vars

\* C13 witness: a callback was answered with the upstream 400 while its
\* session is in the map, unauthenticated
C13_Witness ==
    /\ lastAuth.op = "callback"
    /\ lastAuth.status = 500
    /\ lastAuth.error.status = 400
    /\ lastAuth.state \in DOMAIN authSessions
    /\ ~authSessions[lastAuth.state].authenticated
    /\ authSessions[lastAuth.state].accessToken = Undefined

\* C14: status changes nothing; a state without session is reported as
\* authenticated:false with HTTP 200; the reply carries a token only for an
\* authenticated session, and then the token the exchange for that state
\* stored
C14_StatusIsPureLookup ==
    [][ /\ AnsweredNow("status") =>
             LET state == lastAuth'.state IN
             /\ authSessions' = authSessions
             /\ callbacks' = callbacks
             /\ stateCounter' = stateCounter
             /\ (state /= NoParam /\ state \notin DOMAIN authSessions) =>
                  /\ lastAuth'.status = 200
                  /\ lastAuth'.body = "Session not found"
                  /\ ~lastAuth'.authenticated
                  /\ lastAuth'.token = Undefined
             /\ state \in DOMAIN authSessions =>
                  lastAuth'.authenticated = authSessions[state].authenticated
             /\ lastAuth'.token /= Undefined =>
                  /\ state \in DOMAIN authSessions
                  /\ authSessions[state].authenticated
                  /\ lastAuth'.token = authSessions[state].accessToken
        /\ \A s \in DOMAIN authSessions' :
             (s \notin DOMAIN authSessions
                \/ authSessions'[s].accessToken /= authSessions[s].accessToken) =>
               \/ authSessions'[s].accessToken = Undefined
               \/ /\ ExchangeSucceeded
                  /\ lastAuth'.state = s
                  /\ lastAuth'.token = authSessions'[s].accessToken ]_vars

\* C14 witness: status answered authenticated:false without token for a
\* stored, unauthenticated session while another session is authenticated
C14_Witness ==
    /\ lastAuth.op = "status"
    /\ lastAuth.state \in DOMAIN authSessions
    /\ ~lastAuth.authenticated
    /\ lastAuth.token = Undefined
    /\ \E s \in DOMAIN authSessions : authSessions[s].authenticated

\* C15: after the sweep of an initiate every session created more than 10
\* minutes earlier is absent, and every session created less than 10 minutes
\* earlier, the new one included, is present with its fields unchanged
C15_SweepByAge ==
    [][ stateCounter' = stateCounter + 1 =>
          /\ \A s \in DOMAIN authSessions :
               /\ now - authSessions[s].timestamp > 10 * 60 * 1000 =>
                    s \notin DOMAIN authSessions'
               /\ now - authSessions[s].timestamp < 10 * 60 * 1000 =>
                    /\ s \in DOMAIN authSessions'
                    /\ authSessions'[s] = authSessions[s]
          /\ stateCounter' \in DOMAIN authSessions'
          /\ authSessions'[stateCounter'].timestamp = now
          /\ ~authSessions'[stateCounter'].authenticated ]_vars

\* C15 witness: the second initiate has just run its sweep and the first
\* session, authenticated and 5 minutes old, is still there
C15_Witness ==
    /\ lastAuth.op = "initiate"
    /\ lastAuth.state = 2
    /\ DOMAIN authSessions = {1, 2}
    /\ authSessions[1].authenticated
    /\ now - authSessions[1].timestamp = 5 * 60 * 1000

\* C17: the code_challenge of an initiate is the S256 digest of the verifier
\* it stored; the code_verifier a callback sends to the token endpoint is the
\* one stored for its state and for no other state; a stored verifier never
\* changes
C17_PkceBinding ==
    [][ /\ stateCounter' = stateCounter + 1 =>
             /\ lastAuth'.codeChallenge =
                  S256(authSessions'[lastAuth'.state].codeVerifier)
             /\ lastAuth'.codeChallenge /= authSessions'[lastAuth'.state].codeVerifier
             /\ \A s \in DOMAIN authSessions' \ {lastAuth'.state} :
                  authSessions'[s].codeVerifier /=
                    authSessions'[lastAuth'.state].codeVerifier
        /\ \A cb \in callbacks' \ callbacks :
             /\ cb.state \in DOMAIN authSessions
             /\ cb.codeVerifier = authSessions[cb.state].codeVerifier
             /\ \A s \in DOMAIN authSessions \ {cb.state} :
                  authSessions[s].codeVerifier /= cb.codeVerifier
        /\ \A s \in DOMAIN authSessions \cap DOMAIN authSessions' :
             authSessions'[s].codeVerifier = authSessions[s].codeVerifier ]_vars

\* C17 witness: a callback for the second state awaits the token endpoint
\* with the second verifier while both sessions are stored
C17_Witness ==
    /\ DOMAIN authSessions = {1, 2}
    /\ \E cb \in callbacks :
         /\ cb.state = 2
         /\ cb.codeVerifier = authSessions[2].codeVerifier
         /\ cb.codeVerifier /= authSessions[1].codeVerifier

----------------------------------------------------------------------------
(* Properties of the authentication gate, checked under Spec *)

\* the Authorization header is absent or not of the form 'Bearer <token>'
NotBearer(header) == header = <<>> \/ Len(header) /= 2 \/ header[1] /= "Bearer"

\* the request got as far as the gate: GET /mcp, or a POST /mcp whose body
\* the JSON middleware decoded
ReachedGate(r) == r.pc /= "idle" /\ (r.route = "get" \/ r.req.decodable)

\* C18: a request whose Authorization header is absent or not of the form
\* 'Bearer <token>' is rejected at once and no introspection call is made
C18_NotBearerNoIntrospection ==
    AuthRequired =>
      \A h \in Handlers :
        LET r == handlers[h] IN
        (r.pc /= "idle" /\ NotBearer(r.header)) =>
          /\ r.pc = "done"
          /\ r.introspections = 0
          /\ r.gate \in {"off", "no_token"}
          /\ ~r.dispatched /\ r.registered = 0 /\ r.posts = <<>>
          /\ r.http \in {400, 401}
          /\ ReachedGate(r) => (r.http = 401 /\ r.gate = "no_token" /\ r.user = Invalid)

\* C18 witness: the HTTP+Duo gate answered 401 to a decoded request with a
\* Basic header without calling the introspection endpoint
C18_Witness ==
    /\ variant = "httpduo"
    /\ DUO_ENABLED
    /\ \E h \in Answered :
         /\ handlers[h].header = <<"Basic", "tok">>
         /\ handlers[h].req.decodable
         /\ handlers[h].http = 401
         /\ handlers[h].introspections = 0

\* C19: whatever the introspection endpoint answers, verifyDuoToken hands
\* the handler a tagged result: valid, with the identity, exactly when the
\* answer was 2xx with active:true, and the same {valid:false} otherwise, on
\* which the handler answers 401
C19_VerifyAlwaysTagged ==
    \A h \in Handlers :
      LET r == handlers[h] IN
      /\ r.gate = "active" =>
           /\ DOMAIN r.user = DOMAIN Invalid
           /\ r.user.valid
           /\ r.user.username \in {"alice", "carol", "dave"}
           /\ r.user.displayName \in {"Alice A", "Carol C", "dave"}
      /\ r.gate = "invalid" =>
           /\ r.user = Invalid
           /\ r.pc = "done"
           /\ r.http = 401
      /\ r.user.valid => r.gate = "active"

\* C19 witness: the HTTP+Duo gate answered 401 after an introspection that
\* did not report the token active
C19_Witness ==
    /\ variant = "httpduo"
    /\ \E h \in Answered :
         /\ handlers[h].gate = "invalid"
         /\ handlers[h].introspections = 1
         /\ handlers[h].user = Invalid
         /\ handlers[h].http = 401

\* C20: a protected request with a well-formed bearer header makes exactly
\* one introspection call, whatever connections are registered, and a failed
\* introspection ends the request without a second call
C20_OneIntrospectionPerRequest ==
    AuthRequired =>
      \A h \in Handlers :
        LET r == handlers[h] IN
        /\ (ReachedGate(r) /\ ~NotBearer(r.header) /\ r.header[2] /= "") =>
             /\ r.introspections = 1
             /\ r.pc = "introspect" => r.gate = "off"
             /\ r.pc /= "introspect" => r.gate \in {"active", "invalid"}
        /\ r.gate = "invalid" => (r.pc = "done" /\ r.introspections = 1)
        /\ r.introspections \in {0, 1}

\* C20 witness: a POST /mcp was introspected, found active and dispatched
\* while a stream opened with the same token is registered
C20_Witness ==
    /\ variant = "sseduo"
    /\ sseConnections /= << >>
    /\ \E h \in Answered :
         /\ handlers[h].route = "post"
         /\ handlers[h].gate = "active"
         /\ handlers[h].dispatched
         /\ handlers[h].introspections = 1

----------------------------------------------------------------------------
(* Properties of the reply routing of the SSE + Duo variant, checked under Spec *)

\* the POST /mcp activations that looked up a target stream which is still
\* in the registry
Routed ==
    { h \in Handlers : /\ variant = "sseduo"
                       /\ handlers[h].route = "post"
                       /\ handlers[h].target \in DOMAIN sseConnections }

\* C21: the reply to a POST /mcp goes to the first registered connection whose
\* stored email equals the email verified for the POST's token, and never to
\* a stream that another user opened
C21_ReplyToCallersStream ==
    \A h \in Routed :
      LET r == handlers[h]
          conn == sseConnections[r.target] IN
      /\ conn.user.email = r.user.email
      /\ \A c \in DOMAIN sseConnections :
           c < r.target => sseConnections[c].user.email /= r.user.email
      /\ conn.user.username = r.user.username

\* C22: the registry never holds an entry for a stream that has been closed
C22_NoClosedStreamRegistered ==
    \A c \in DOMAIN sseConnections : ~sseConnections[c].closed

----------------------------------------------------------------------------
(* Properties of tools/call, checked under Spec *)

\* the activations whose call of chat.postMessage failed: an answer with
\* ok: false, or fetch / response.json() throwing
SlackFailed ==
    { h \in Answered : handlers[h].slack.kind \in {"notok", "throw"} }

\* C23: a tools/call whose Slack call fails is answered with exactly one
\* envelope, which is flagged as an error (isError: true or a JSON-RPC
\* error), carries the upstream error message and has the request's id
C23_SlackFailureIsError ==
    \A h \in SlackFailed :
      LET r == handlers[h] IN
      /\ Len(r.rpc) = 1
      /\ r.rpc[1].kind = "error" \/ r.rpc[1].isError
      /\ r.rpc[1].detail = r.slack.error
      /\ r.rpc[1].id = r.req.id

C23_Witness ==
    \E h \in SlackFailed :
      /\ handlers[h].slack.kind = "notok"
      /\ handlers[h].req.id \in Ids
      /\ handlers[h].rpc[1].detail = "channel_not_found"
      /\ handlers[h].rpc[1].isError

\* C24: every decoded request gets exactly one transport response: one
\* message on the WebSocket (a notification, which has no response, set
\* aside), one HTTP answer on the HTTP endpoints
C24_ExactlyOneResponse ==
    \A h \in Answered :
      LET r == handlers[h] IN
      (r.req.decodable /\ r.route \in {"message", "post"}) =>
        IF variant = "ws"
        THEN StartsWithNotifications(r.req.method) \/ Len(r.rpc) = 1
        ELSE r.http /= 0

----------------------------------------------------------------------------
(* Properties of the configuration, checked under Spec *)

\* C25: a process that handles a request was started with SLACK_BOT_TOKEN
\* set and, in the variant with the OAuth endpoints, with the OAuth
\* configuration complete
C25_ServingImpliesConfigured ==
    (\E h \in Handlers : ~Free(h)) =>
      /\ SLACK_BOT_TOKEN
      /\ variant = "sseduo" => duoOAuthConfigured

----------------------------------------------------------------------------
(* Properties of the Slack post, checked under Spec *)

\* the activations that called chat.postMessage
Posted == { h \in Handlers : handlers[h].posts /= <<>> }

\* C26: the text posted to Slack is the caller's text, prefixed with the
\* displayName verified for this request's token when the variant
\* authenticates, and without a prefix otherwise
C26_PrefixIsCallersName ==
    \A h \in Posted :
      LET r == handlers[h]
          post == r.posts[1] IN
      /\ post.text = r.req.text
      /\ post.prefix = IF AuthRequired THEN r.user.displayName ELSE Undefined

----------------------------------------------------------------------------
(* Properties of the tool catalog, checked under Spec *)

\* the value of the argument named f in the request's params.arguments
ArgField(req, f) ==
    CASE f = "channel_id" -> req.channel_id
      [] f = "channel" -> req.channel
      [] OTHER -> req.text

\* the single tool this variant advertises, and its channel field
Advertised == ToolsList(variant)[1]
AdvertisedChannel == CHOOSE f \in Advertised.required : f /= "text"

\* the activations that answered a tools/list with a result
Listed ==
    { h \in Served : /\ handlers[h].req.method = "tools/list"
                     /\ handlers[h].rpc /= <<>>
                     /\ handlers[h].rpc[1].kind = "result" }

\* C27: tools/list returns exactly one tool whose required fields are a
\* channel field and text; tools/call posts to Slack only for the advertised
\* name, reads the channel from the advertised field, and never answers
\* "unknown tool" to the advertised name
C27_CatalogAgrees ==
    \A h \in Handlers :
      LET r == handlers[h] IN
      /\ h \in Listed =>
           /\ Len(r.rpc[1].tools) = 1
           /\ r.rpc[1].tools[1] = Advertised
           /\ \E f \in {"channel_id", "channel"} :
                r.rpc[1].tools[1].required = {f, "text"}
      /\ h \in Posted =>
           /\ r.req.name = Advertised.name
           /\ r.posts[1].channel = ArgField(r.req, AdvertisedChannel)
      /\ (h \in Served /\ r.req.method = "tools/call" /\ r.req.hasParams
            /\ r.req.name = Advertised.name) =>
           /\ r.rpc /= <<>>
           /\ ~HasEnvelope(r, "error", -32601)

C27_Witness ==
    /\ variant = "sseduo"
    /\ \E h \in Posted :
         /\ handlers[h].req.name = "postMessage"
         /\ handlers[h].req.channel = "C123"
         /\ handlers[h].posts[1].channel = "C123"

----------------------------------------------------------------------------
(* Properties of the choice among several streams, checked under Spec *)

\* C28: the reply to a POST /mcp goes to the most recently opened
\* connection of the caller: no registered connection with the caller's
\* email was opened after the target
C28_ReplyToLatestStream ==
    \A h \in Routed :
      LET r == handlers[h] IN
      \A c \in DOMAIN sseConnections :
        sseConnections[c].user.email = r.user.email => c <= r.target

\* C29: chat.postMessage is called only for a tools/call whose
\* params.arguments is present and has a non-empty channel field and a
\* non-empty text
C29_PostOnlyWithArguments ==
    \A h \in Posted :
      LET r == handlers[h] IN
      /\ r.req.hasArgs
      /\ ArgField(r.req, AdvertisedChannel) \notin {Undefined, ""}
      /\ r.req.text \notin {Undefined, ""}

----------------------------------------------------------------------------
(* Properties of the delivery of the reply, checked under Spec *)

\* the POST /mcp activations of the SSE + Duo variant that answered a
\* request other than a notification with HTTP 200 {status: 'ok'}
AnsweredOk ==
    { h \in Answered : /\ variant = "sseduo"
                       /\ handlers[h].route = "post"
                       /\ handlers[h].http = 200
                       /\ handlers[h].body = "status_ok"
                       /\ ~StartsWithNotifications(handlers[h].req.method) }

\* the target of activation h is a stream whose client had gone before the
\* connection was registered
TargetNeverOpen(h) ==
    /\ handlers[h].target \in DOMAIN sseConnections
    /\ sseConnections[handlers[h].target].closed

\* C30: when POST /mcp answers 200 {status: 'ok'}, the JSON-RPC response was
\* written to a stream that was open and registered at the write (the
\* streams that were never open while registered set aside)
C30_OkMeansDelivered ==
    \A h \in AnsweredOk : handlers[h].live \/ TargetNeverOpen(h)

----------------------------------------------------------------------------
(* Properties of the sweeps, checked under SpecSweep *)

\* C16: every session that has become older than 10 minutes is eventually
\* absent from the session map
C16_ExpiredEventuallySwept ==
    \A s \in 1..MaxSessions :
      (s \in DOMAIN authSessions /\ Expired(authSessions[s], now))
        ~> (s \notin DOMAIN authSessions)

----------------------------------------------------------------------------
(* Properties of interleaved requests, checked under SpecConcurrent *)

\* the activations that answered after their own call of chat.postMessage
AnsweredAfterSlack ==
    { h \in DOMAIN handlers : /\ handlers[h].pc = "done"
                              /\ handlers[h].slack.kind /= "none" }

\* C31: whatever other requests are in flight, the response of a request
\* that called Slack has that request's id, reports the outcome of that
\* request's own Slack call and, on the WebSocket, is sent on the connection
\* the request arrived on
C31_OwnRequestOnly ==
    \A h \in AnsweredAfterSlack :
      LET r == handlers[h]
          duo == variant = "httpduo" /\ DUO_ENABLED IN
      /\ Len(r.rpc) = 1
      /\ r.rpc[1].id = r.req.id
      /\ r.slack.kind = "ok" =>
           /\ r.rpc[1].kind = "result" /\ ~r.rpc[1].isError
           /\ r.rpc[1].detail = IF duo THEN r.req.channel_id ELSE r.req.text
      /\ r.slack.kind = "notok" =>
           r.rpc[1].isError /\ r.rpc[1].detail = r.slack.error
      /\ r.slack.kind = "throw" =>
           r.rpc[1].kind = "error" /\ r.rpc[1].detail = r.slack.error
      /\ variant = "ws" => r.sentOn = r.ws

\* C31 witness: two requests with different ids on different WebSocket
\* connections were suspended in the Slack call at once, and the one that
\* arrived second has been answered first
C31_Witness ==
    /\ variant = "ws"
    /\ \E g, h \in DOMAIN handlers :
         /\ handlers[g].pc = "slack" /\ handlers[g].order = 1
         /\ h \in AnsweredAfterSlack /\ handlers[h].order = 2
         /\ handlers[g].req.id /= handlers[h].req.id
         /\ handlers[g].ws /= handlers[h].ws
         /\ handlers[h].rpc[1].id = handlers[h].req.id
         /\ handlers[h].sentOn = handlers[h].ws

====
